---- MODULE Spec2Model ----
(***************************************************************************)
(* A-CEEI with (contested) EF-TB course allocation:                        *)
(* fairpyx/algorithms/ACEEI.py.                                            *)
(*                                                                         *)
(* The module models one call of a module-level function of ACEEI.py as a  *)
(* state machine.  Items and agents are numbered from 1 (Python numbers    *)
(* them from 0).  Amounts (prices, budgets, epsilon, delta) are integers   *)
(* in one common unit.  A Python exception ends the call: pc = "raised"    *)
(* and exc names the exception.                                            *)
(***************************************************************************)
EXTENDS Integers, Sequences, FiniteSets

VARIABLES
    entry,            \* the function of ACEEI.py that the caller invoked
    instance,         \* the Instance argument
    initial_budgets,  \* the initial_budgets argument, one amount per agent
    epsilon,          \* the epsilon argument
    delta,            \* the delta argument
    prices,           \* the prices object: a list or a dict of amounts
    pc,               \* position of the call in the source
    exc,              \* the exception that ended the call, or "none"
    calls,            \* the functions invoked so far, in order
    student,          \* find_different_budgets: next agent of the loop at line 73
    combinations_sum_set, \* find_different_budgets: line 69
    different_budgets,    \* find_different_budgets: line 71
    student_idx,      \* student_budget_per_bundle: next agent of the loop at line 107
    matrix_a,         \* student_budget_per_bundle: line 101
    lpResult,         \* the value lp.optimize_model returned
    fbpResult,        \* the value find_budget_perturbation returned
    allocation,       \* find_ACEEI_with_EFTB: line 249 / 255
    norma,            \* find_ACEEI_with_EFTB: line 252 / 255
    z                 \* the vector excess_demand or clipped_excess_demand returned

vars == <<entry, instance, initial_budgets, epsilon, delta, prices, pc, exc,
          calls, student, combinations_sum_set, different_budgets,
          student_idx, matrix_a, lpResult, fbpResult, allocation, norma, z>>

(***************************************************************************)
(* Bounds of the model.                                                    *)
(***************************************************************************)
MaxAgents == 2
NumItems == 2
MaxCap == 2
MaxPrice == 2
MaxVal == 1
MaxItemCap == 1

Items == 1..NumItems
BudgetVals == {1, 2}
\* <<epsilon, delta>> pairs: the valid ones (epsilon >= 0, delta > 0), among
\* them one whose cap 2*epsilon/delta + 1 binds, and the malformed ones.
ParamPairs == {<<0, 1>>, <<1, 1>>, <<1, 2>>, <<2, 1>>,
               <<1, 0>>, <<1, -1>>, <<-1, 1>>}

ACEEI == "find_ACEEI_with_EFTB"
FBP == "find_budget_perturbation"
FDB == "find_different_budgets"
SBPB == "student_budget_per_bundle"
OPT == "optimize_model"

\* Python's None, and the objects that do not exist yet.
None == [tag |-> "None"]
Unset == [kind |-> "unset", vals |-> <<>>]

(***************************************************************************)
(* Helpers on sets and sequences of integers.                              *)
(***************************************************************************)
RECURSIVE SumOver(_, _)
SumOver(S, f) ==
    IF S = {} THEN 0
    ELSE LET x == CHOOSE y \in S : TRUE IN f[x] + SumOver(S \ {x}, f)

Min(S) == CHOOSE x \in S : \A y \in S : x <= y

\* sorted(...) of a set of numbers: the ascending list
RECURSIVE Sorted(_)
Sorted(S) == IF S = {} THEN <<>> ELSE <<Min(S)>> \o Sorted(S \ {Min(S)})

\* itertools.combinations(range(NumItems), r): the r-subsets of the items
Combinations(r) == {S \in SUBSET Items : Cardinality(S) = r}

\* lines 77-78 and 119-120: the combinations of 1..capacity items
CombinationList(capacity) == UNION {Combinations(r) : r \in 1..capacity}

(***************************************************************************)
(* excess_demand and clipped_excess_demand, lines 23-36.                   *)
(* allocation[a][i] is 1 when agent a holds item i.                        *)
(***************************************************************************)
excess_demand(inst, budgets, p, alloc) ==
    [course \in Items |->
        SumOver(DOMAIN alloc, [a \in DOMAIN alloc |-> alloc[a][course]])
            - inst.item_capacity[course]]

Max0(x) == IF x > 0 THEN x ELSE 0

\* line 35
clipped_excess_demand_ClipAll(inst, budgets, p, alloc) ==
    LET zz == excess_demand(inst, budgets, p, alloc)
    IN  [i \in Items |-> Max0(zz[i])]

clipped_excess_demand(inst, budgets, p, alloc) ==
    LET zz == excess_demand(inst, budgets, p, alloc)
    IN  [i \in Items |-> IF p[i] = 0 THEN Max0(zz[i]) ELSE zz[i]]

(***************************************************************************)
(* find_different_budgets, lines 66-95.                                    *)
(***************************************************************************)
\* line 88: len(row_student) + 1 > max_k with max_k = 2*epsilon/delta + 1
\* (line 66), that is len(row_student) > 2*epsilon/delta; delta is not 0 here.
ExceedsMaxK(len, eps, dlt) ==
    IF dlt > 0 THEN len * dlt > 2 * eps ELSE len * dlt < 2 * eps

\* line 90
InWindowNoMax(min_budget, combination_sum, max_budget) ==
    min_budget < combination_sum

InWindow(min_budget, combination_sum, max_budget) ==
    min_budget < combination_sum /\ combination_sum <= max_budget

\* lines 77-79: the sums of r prices, r = 1..capacity, that one agent adds
ComboSums(p, capacity) ==
    {SumOver(combo, p) : combo \in CombinationList(capacity)}

\* lines 87-92: the walk over sorted(combinations_sum_set) from position i
RECURSIVE RowStudent(_, _, _, _, _, _, _)
RowStudent(row_student, min_budget, max_budget, sums, i, eps, dlt) ==
    IF i > Len(sums) THEN row_student
    ELSE IF ExceedsMaxK(Len(row_student), eps, dlt) THEN row_student
    ELSE IF InWindow(min_budget, sums[i], max_budget)
         THEN RowStudent(Append(row_student, sums[i]), sums[i], max_budget,
                         sums, i + 1, eps, dlt)
         ELSE RowStudent(row_student, min_budget, max_budget, sums, i + 1,
                         eps, dlt)

Raise(name) ==
    /\ pc' = "raised"
    /\ exc' = name

\* line 66; a zero delta divides by zero
FDB_Begin ==
    /\ pc = "fdb_begin"
    /\ IF delta = 0
       THEN /\ Raise("ZeroDivisionError")
            /\ UNCHANGED <<student, combinations_sum_set, different_budgets>>
       ELSE /\ pc' = "fdb_loop"
            /\ student' = 1
            /\ combinations_sum_set' = {}
            /\ different_budgets' = <<>>
            /\ UNCHANGED exc
    /\ UNCHANGED <<z, entry, instance, initial_budgets, epsilon, delta, prices,
                   calls, student_idx, matrix_a, lpResult, fbpResult,
                   allocation, norma>>

\* lines 73-94: one pass of the loop over the agents.  combinations_sum_set
\* is created once, before the loop (line 69), and only ever added to.
\* prices.values() (line 78) exists for a dict only.
FDB_Student ==
    /\ pc = "fdb_loop"
    /\ student <= instance.num_of_agents
    /\ LET capacity == instance.agent_capacity[student]
           sums == combinations_sum_set \cup ComboSums(prices.vals, capacity)
           min_budget == initial_budgets[student] - epsilon
           max_budget == initial_budgets[student] + epsilon
       IN  IF capacity >= 1 /\ prices.kind # "dict"
           THEN /\ Raise("AttributeError")
                /\ UNCHANGED <<student, combinations_sum_set,
                               different_budgets>>
           ELSE /\ combinations_sum_set' = sums
                /\ different_budgets' =
                       Append(different_budgets,
                              RowStudent(<<min_budget>>, min_budget,
                                         max_budget, Sorted(sums), 1,
                                         epsilon, delta))
                /\ student' = student + 1
                /\ UNCHANGED <<pc, exc>>
    /\ UNCHANGED <<z, entry, instance, initial_budgets, epsilon, delta, prices,
                   calls, student_idx, matrix_a, lpResult, fbpResult,
                   allocation, norma>>

\* line 95, and for a call from find_budget_perturbation line 152 with the
\* first lines of student_budget_per_bundle (101-105)
FDB_Return ==
    /\ pc = "fdb_loop"
    /\ student > instance.num_of_agents
    /\ IF entry = FDB
       THEN /\ pc' = "returned"
            /\ UNCHANGED <<calls, student_idx, matrix_a>>
       ELSE /\ pc' = "sbpb_loop"
            /\ calls' = Append(calls, SBPB)
            /\ student_idx' = 1
            /\ matrix_a' = [a \in 1..instance.num_of_agents |-> <<>>]
    /\ UNCHANGED <<z, entry, instance, initial_budgets, epsilon, delta, prices,
                   exc, student, combinations_sum_set, different_budgets,
                   lpResult, fbpResult, allocation, norma>>

(***************************************************************************)
(* A direct call of find_different_budgets (as in its doctests, lines      *)
(* 42-63): the instance, the budgets, epsilon, delta and a dict of prices. *)
(***************************************************************************)
AgentCounts == 0..MaxAgents

Instances(keyKinds, itemCaps, valRows) ==
    UNION {[num_of_agents : {n},
            keys : keyKinds,
            agent_capacity : [1..n -> 1..MaxCap],
            item_capacity : itemCaps,
            valuations : [1..n -> valRows]] : n \in AgentCounts}

ParamsOK == epsilon >= 0 /\ delta > 0

InitFDB ==
    /\ entry = FDB
    /\ instance \in Instances({"name"}, {[i \in Items |-> 1]},
                              {[i \in Items |-> 0]})
    /\ initial_budgets \in [1..instance.num_of_agents -> BudgetVals]
    /\ \E pr \in ParamPairs : epsilon = pr[1] /\ delta = pr[2]
    /\ prices \in [kind : {"dict"}, vals : [Items -> 0..MaxPrice]]
    /\ pc = "fdb_begin"
    /\ exc = "none"
    /\ calls = <<FDB>>
    /\ student = 0
    /\ combinations_sum_set = {}
    /\ different_budgets = <<>>
    /\ student_idx = 0
    /\ matrix_a = <<>>
    /\ lpResult = None
    /\ fbpResult = None
    /\ allocation = <<>>
    /\ norma = 1
    /\ z = None

NextFDB == FDB_Begin \/ FDB_Student \/ FDB_Return

SpecFDB == InitFDB /\ [][NextFDB]_vars

(***************************************************************************)
(* student_budget_per_bundle, lines 99-146.                                *)
(***************************************************************************)
\* line 110
large_num(inst, a) == SumOver(Items, inst.valuations[a])

\* lines 119-124: the combinations of 1..capacity items whose prices sum to
\* at most the budget
Affordable(p, budget, capacity) ==
    {combination \in CombinationList(capacity) :
        SumOver(combination, p) <= budget}

\* lines 142-143
binary_vector(max_combination) ==
    [i \in Items |->
        IF max_combination # None /\ i \in max_combination THEN 1 ELSE 0]

\* lines 117-145 for one agent.  utility_combination is a local name that no
\* statement binds before lines 135 and 136 read it (the lines computing it,
\* 125-130, are comments), so the first affordable combination raises
\* UnboundLocalError; max_combination therefore still is None at line 142.
BundleRows(row, p, capacity) ==
    IF \E k \in DOMAIN row : Affordable(p, row[k], capacity) # {}
    THEN [tag |-> "raise", exc |-> "UnboundLocalError"]
    ELSE [tag |-> "ok", rows |-> [k \in DOMAIN row |-> binary_vector(None)]]

\* lines 107-145: one pass of the loop over the agents.  different_budgets is
\* indexed by the agent's position (line 117); the dict that
\* find_different_budgets built is keyed by the agents' identifiers, so the
\* index is a key only when the instance numbers its agents 0, 1, ...
SBPB_Student ==
    /\ pc = "sbpb_loop"
    /\ student_idx <= instance.num_of_agents
    /\ IF instance.keys # "index"
       THEN /\ Raise("KeyError")
            /\ UNCHANGED <<student_idx, matrix_a>>
       ELSE LET r == BundleRows(different_budgets[student_idx], prices.vals,
                                instance.agent_capacity[student_idx])
            IN  IF r.tag = "raise"
                THEN /\ Raise(r.exc)
                     /\ UNCHANGED <<student_idx, matrix_a>>
                ELSE /\ matrix_a' = [matrix_a EXCEPT ![student_idx] = r.rows]
                     /\ student_idx' = student_idx + 1
                     /\ UNCHANGED <<pc, exc>>
    /\ UNCHANGED <<z, entry, instance, initial_budgets, epsilon, delta, prices,
                   calls, student, combinations_sum_set, different_budgets,
                   lpResult, fbpResult, allocation, norma>>

\* line 146, back in find_budget_perturbation at line 153
SBPB_Return ==
    /\ pc = "sbpb_loop"
    /\ student_idx > instance.num_of_agents
    /\ pc' = "optimize"
    /\ UNCHANGED <<z, entry, instance, initial_budgets, epsilon, delta, prices,
                   exc, calls, student, combinations_sum_set,
                   different_budgets, student_idx, matrix_a, lpResult,
                   fbpResult, allocation, norma>>

(***************************************************************************)
(* lp.optimize_model (module linear_program, line 11): one candidate       *)
(* bundle per agent, seat usage as close to the item capacities as the     *)
(* candidates allow; it reports the realized budgets, the norm of the      *)
(* clipped excess demand, the allocation and the excess demand.            *)
(***************************************************************************)
Selections(a_matrix) ==
    LET lens == {Len(a_matrix[a]) : a \in DOMAIN a_matrix} \cup {0}
        longest == CHOOSE k \in lens : \A l \in lens : l <= k
    IN  {sel \in [DOMAIN a_matrix -> 1..longest] :
            \A a \in DOMAIN a_matrix : sel[a] <= Len(a_matrix[a])}

LPOutcome(a_matrix, inst, p, budgets, rows, sel) ==
    LET alloc == [a \in DOMAIN a_matrix |-> a_matrix[a][sel[a]]]
        clipped == clipped_excess_demand(inst, budgets, p, alloc)
    IN  [tag |-> "tuple",
         new_budgets |-> [a \in DOMAIN a_matrix |-> rows[a][sel[a]]],
         norma |-> SumOver(Items, [i \in Items |-> clipped[i] * clipped[i]]),
         allocation |-> alloc,
         excess_demand |-> excess_demand(inst, budgets, p, alloc)]

optimize_model(a_matrix, inst, p, budgets, rows) ==
    LET all == {LPOutcome(a_matrix, inst, p, budgets, rows, sel) :
                    sel \in Selections(a_matrix)}
    IN  {r \in all : \A q \in all : r.norma <= q.norma}

\* line 153
OptimizeModel ==
    /\ pc = "optimize"
    /\ lpResult' \in optimize_model(matrix_a, instance, prices.vals,
                                    initial_budgets, different_budgets)
    /\ calls' = Append(calls, OPT)
    /\ pc' = "fbp_return"
    /\ UNCHANGED <<z, entry, instance, initial_budgets, epsilon, delta, prices,
                   exc, student, combinations_sum_set, different_budgets,
                   student_idx, matrix_a, fbpResult, allocation, norma>>

(***************************************************************************)
(* find_budget_perturbation, lines 149-153.                                *)
(***************************************************************************)
\* line 150: the call of find_different_budgets
FBP_Begin ==
    /\ pc = "fbp_begin"
    /\ pc' = "fdb_begin"
    /\ calls' = Append(calls, FDB)
    /\ UNCHANGED <<z, entry, instance, initial_budgets, epsilon, delta, prices,
                   exc, student, combinations_sum_set, different_budgets,
                   student_idx, matrix_a, lpResult, fbpResult, allocation,
                   norma>>

\* the value find_budget_perturbation hands back: the function ends after
\* line 153 without a return statement
find_budget_perturbation_value(lp_value) == None

FBP_Return ==
    /\ pc = "fbp_return"
    /\ fbpResult' = find_budget_perturbation_value(lpResult)
    /\ pc' = IF entry = FBP THEN "returned" ELSE "unpack"
    /\ UNCHANGED <<z, entry, instance, initial_budgets, epsilon, delta, prices,
                   exc, calls, student, combinations_sum_set,
                   different_budgets, student_idx, matrix_a, lpResult,
                   allocation, norma>>

(***************************************************************************)
(* find_ACEEI_with_EFTB, lines 249-261.                                    *)
(***************************************************************************)
\* lines 249-252
ACEEI_Begin ==
    /\ pc = "aceei_begin"
    /\ allocation' = [i \in Items |-> [a \in 1..instance.num_of_agents |-> 0]]
    /\ prices' = [kind |-> "list", vals |-> [i \in Items |-> 0]]
    /\ norma' = 1
    /\ pc' = "while"
    /\ UNCHANGED <<z, entry, instance, initial_budgets, epsilon, delta, exc,
                   calls, student, combinations_sum_set, different_budgets,
                   student_idx, matrix_a, lpResult, fbpResult>>

\* lines 253-255: the loop test and the call of find_budget_perturbation
ACEEI_While ==
    /\ pc = "while"
    /\ IF norma # 0
       THEN /\ pc' = "fbp_begin"
            /\ calls' = Append(calls, FBP)
       ELSE /\ pc' = "returned"
            /\ UNCHANGED calls
    /\ UNCHANGED <<z, entry, instance, initial_budgets, epsilon, delta, prices,
                   exc, student, combinations_sum_set, different_budgets,
                   student_idx, matrix_a, lpResult, fbpResult, allocation,
                   norma>>

\* k * xs on a Python list: xs repeated k times
RECURSIVE ListRepeat(_, _)
ListRepeat(k, xs) == IF k <= 0 THEN <<>> ELSE xs \o ListRepeat(k - 1, xs)

\* line 261 on lists: delta * excess_demand repeats, + concatenates
UpdatedPrices(p, dlt, excess) == p \o ListRepeat(dlt, excess)

\* lines 255-261: the unpacking of the value find_budget_perturbation handed
\* back, the test of the norm and the price update
ACEEI_Step ==
    /\ pc = "unpack"
    /\ IF fbpResult = None
       THEN /\ Raise("TypeError")
            /\ UNCHANGED <<prices, allocation, norma>>
       ELSE /\ norma' = fbpResult.norma
            /\ allocation' = fbpResult.allocation
            /\ exc' = exc
            /\ IF fbpResult.norma = 0
               THEN /\ pc' = "returned"
                    /\ UNCHANGED prices
               ELSE /\ pc' = "while"
                    /\ prices' = [kind |-> "list",
                                  vals |-> UpdatedPrices(prices.vals, delta,
                                               fbpResult.excess_demand)]
    /\ UNCHANGED <<z, entry, instance, initial_budgets, epsilon, delta, calls,
                   student, combinations_sum_set, different_budgets,
                   student_idx, matrix_a, lpResult, fbpResult>>

(***************************************************************************)
(* A call of find_ACEEI_with_EFTB, or of find_budget_perturbation with a   *)
(* dict of prices (as at lines 275-282).  The instance names its agents    *)
(* and items (as every doctest does) or numbers them.                      *)
(***************************************************************************)
Init ==
    /\ entry \in {ACEEI, FBP}
    /\ instance \in Instances({"name", "index"},
                              [Items -> 1..MaxItemCap],
                              [Items -> 0..MaxVal])
    /\ initial_budgets \in [1..instance.num_of_agents -> BudgetVals]
    /\ \E pr \in ParamPairs : epsilon = pr[1] /\ delta = pr[2]
    /\ IF entry = ACEEI
       THEN prices = Unset /\ pc = "aceei_begin" /\ calls = <<ACEEI>>
       ELSE /\ prices \in [kind : {"dict"}, vals : [Items -> 0..MaxPrice]]
            /\ pc = "fbp_begin"
            /\ calls = <<FBP>>
    /\ exc = "none"
    /\ student = 0
    /\ combinations_sum_set = {}
    /\ different_budgets = <<>>
    /\ student_idx = 0
    /\ matrix_a = <<>>
    /\ lpResult = None
    /\ fbpResult = None
    /\ allocation = <<>>
    /\ norma = 1
    /\ z = None

Next ==
    \/ ACEEI_Begin
    \/ ACEEI_While
    \/ FBP_Begin
    \/ FDB_Begin
    \/ FDB_Student
    \/ FDB_Return
    \/ SBPB_Student
    \/ SBPB_Return
    \/ OptimizeModel
    \/ FBP_Return
    \/ ACEEI_Step

Spec == Init /\ [][Next]_vars

(***************************************************************************)
(* A direct call of excess_demand or clipped_excess_demand (lines 23-36)   *)
(* with a 0/1 allocation matrix, one row per agent, and a list of prices.  *)
(* Both index the item capacities, the prices and the allocation by        *)
(* position.                                                               *)
(***************************************************************************)
ED == "excess_demand"
CED == "clipped_excess_demand"

\* lines 23-30
ExcessDemand ==
    /\ entry = ED
    /\ pc = "excess_begin"
    /\ z' = excess_demand(instance, initial_budgets, prices.vals, allocation)
    /\ pc' = "returned"
    /\ UNCHANGED <<entry, instance, initial_budgets, epsilon, delta, prices,
                   exc, calls, student, combinations_sum_set,
                   different_budgets, student_idx, matrix_a, lpResult,
                   fbpResult, allocation, norma>>

\* lines 33-36
ClippedExcessDemand ==
    /\ entry = CED
    /\ pc = "excess_begin"
    /\ z' = clipped_excess_demand(instance, initial_budgets, prices.vals,
                                  allocation)
    /\ pc' = "returned"
    /\ UNCHANGED <<entry, instance, initial_budgets, epsilon, delta, prices,
                   exc, calls, student, combinations_sum_set,
                   different_budgets, student_idx, matrix_a, lpResult,
                   fbpResult, allocation, norma>>

InitExcess ==
    /\ entry \in {ED, CED}
    /\ \E n \in AgentCounts :
          /\ instance \in [num_of_agents : {n},
                           keys : {"index"},
                           agent_capacity : {[a \in 1..n |-> NumItems]},
                           item_capacity : [Items -> 1..MaxItemCap],
                           valuations : {[a \in 1..n |-> [i \in Items |-> 0]]}]
          /\ allocation \in [1..n -> [Items -> {0, 1}]]
          /\ initial_budgets = [a \in 1..n |-> Min(BudgetVals)]
    /\ prices \in [kind : {"list"}, vals : [Items -> 0..MaxPrice]]
    /\ epsilon = 0
    /\ delta = 1
    /\ pc = "excess_begin"
    /\ exc = "none"
    /\ calls = <<entry>>
    /\ student = 0
    /\ combinations_sum_set = {}
    /\ different_budgets = <<>>
    /\ student_idx = 0
    /\ matrix_a = <<>>
    /\ lpResult = None
    /\ fbpResult = None
    /\ norma = 1
    /\ z = None

NextExcess == ExcessDemand \/ ClippedExcessDemand

SpecExcess == InitExcess /\ [][NextExcess]_vars

(***************************************************************************)
(* Claims on find_different_budgets.                                       *)
(***************************************************************************)
\* the list an agent gets when its own price sums alone are walked
OwnRow(a) ==
    RowStudent(<<initial_budgets[a] - epsilon>>, initial_budgets[a] - epsilon,
               initial_budgets[a] + epsilon,
               Sorted(ComboSums(prices.vals, instance.agent_capacity[a])), 1,
               epsilon, delta)

\* C3: for epsilon >= 0 and delta > 0, every candidate budget that
\* find_different_budgets produces for an agent lies within
\* [initial_budget - epsilon, initial_budget + epsilon].
C3_BudgetWindow ==
    ParamsOK =>
        \A a \in DOMAIN different_budgets :
            \A k \in DOMAIN different_budgets[a] :
                /\ initial_budgets[a] - epsilon <= different_budgets[a][k]
                /\ different_budgets[a][k] <= initial_budgets[a] + epsilon

\* C3 witness: find_different_budgets has returned, with valid parameters,
\* a list that holds a price sum next to the lower bound while another price
\* sum lies above the agent's window.
C3_Witness ==
    /\ pc = "returned"
    /\ entry = FDB
    /\ ParamsOK
    /\ \E a \in DOMAIN different_budgets :
          /\ Len(different_budgets[a]) >= 2
          /\ \E s \in combinations_sum_set : s > initial_budgets[a] + epsilon

\* C8 (as claimed): every candidate budget of an agent other than the lower
\* bound is a sum of the prices of r distinct items, 1 <= r <= the agent's own
\* capacity, and the agent's list is the one its own capacity, budget, the
\* prices, epsilon and delta determine, whatever the other agents are.
C8_OwnCapacitySums ==
    \A a \in DOMAIN different_budgets :
        /\ \A k \in 2..Len(different_budgets[a]) :
              different_budgets[a][k]
                  \in ComboSums(prices.vals, instance.agent_capacity[a])
        /\ different_budgets[a] = OwnRow(a)

\* the list of agent a is the walk the claim describes over the set sums: it
\* starts with initial_budget - epsilon, is strictly increasing, has at most
\* 2*epsilon/delta + 1 entries, and after the first entry holds the smallest
\* members of sums in (initial_budget - epsilon, initial_budget + epsilon],
\* none skipped unless the cap is reached; with no member in that range it
\* is the lower bound alone.
IsWalkOf(a, sums) ==
    LET row == different_budgets[a]
        lo == initial_budgets[a] - epsilon
        hi == initial_budgets[a] + epsilon
        inRange == {x \in sums : lo < x /\ x <= hi}
        kept == {row[k] : k \in 2..Len(row)}
    IN  /\ row[1] = lo
        /\ \A k \in 1..(Len(row) - 1) : row[k] < row[k + 1]
        /\ (Len(row) - 1) * delta <= 2 * epsilon
        /\ kept \subseteq inRange
        /\ \A x \in inRange \ kept : \A y \in kept : y < x
        /\ (inRange \ kept # {}) => Len(row) * delta > 2 * epsilon
        /\ (inRange = {}) => row = <<lo>>

\* the sums in combinations_sum_set when the loop at line 73 reaches agent a
SumsWalkedFor(a) ==
    UNION {ComboSums(prices.vals, instance.agent_capacity[b]) : b \in 1..a}

\* for epsilon >= 0 and delta > 0 every list is that walk over the sums the
\* loop has collected up to its agent
WalkOfCollectedSums ==
    ParamsOK =>
        \A a \in DOMAIN different_budgets : IsWalkOf(a, SumsWalkedFor(a))

\* C11 (as claimed): for epsilon >= 0 and delta > 0, the list of every agent
\* starts with initial_budget - epsilon, is strictly increasing, has at most
\* 2*epsilon/delta + 1 entries, and after the first entry consists of the
\* smallest price sums the agent can attain (1..capacity items) in
\* (initial_budget - epsilon, initial_budget + epsilon], in increasing order,
\* none skipped before the cap is reached; when no such sum is in that range
\* the list is [initial_budget - epsilon].
C11_SmallestAttainableSums ==
    ParamsOK =>
        \A a \in DOMAIN different_budgets :
            IsWalkOf(a, ComboSums(prices.vals, instance.agent_capacity[a]))

(***************************************************************************)
(* Claims on find_ACEEI_with_EFTB and find_budget_perturbation.            *)
(***************************************************************************)
Ended == pc \in {"returned", "raised"}

\* a call with at least one agent, epsilon >= 0 and delta > 0
ValidCall == ParamsOK /\ instance.num_of_agents >= 1

\* the positions of one iteration of the loop at line 253
InIteration ==
    pc \in {"fbp_begin", "fdb_begin", "fdb_loop", "sbpb_loop", "optimize",
            "fbp_return", "unpack"}

CapacityFeasible(inst, alloc) ==
    /\ \A a \in DOMAIN alloc :
          SumOver(Items, alloc[a]) <= inst.agent_capacity[a]
    /\ \A i \in Items :
          SumOver(DOMAIN alloc, [a \in DOMAIN alloc |-> alloc[a][i]])
              <= inst.item_capacity[i]

\* C1 (as claimed, and as the doctests at lines 177-247 exercise it): a call
\* of find_ACEEI_with_EFTB ends by returning an allocation, and in it every
\* agent holds at most its capacity of items and every item is held by at
\* most its capacity of agents.
C1_ReturnsFeasibleAllocation ==
    (entry = ACEEI /\ ValidCall /\ Ended) =>
        /\ pc = "returned"
        /\ CapacityFeasible(instance, allocation)

\* C2 (as claimed): a call of find_ACEEI_with_EFTB ends by returning in an
\* iteration whose norm is 0, and the clipped excess demand recomputed from
\* the returned allocation and the prices of that iteration is zero for
\* every item.
C2_ReturnsAtZeroClippedExcess ==
    (entry = ACEEI /\ ValidCall /\ Ended) =>
        /\ pc = "returned"
        /\ norma = 0
        /\ \A i \in Items :
              clipped_excess_demand(instance, initial_budgets, prices.vals,
                                    allocation)[i] = 0

\* C4 (as claimed): a call of find_ACEEI_with_EFTB with delta <= 0 or
\* epsilon < 0 is rejected with an error before the budget search (the loop
\* at line 73), the bundle maximization, the optimizer call or a price
\* update takes place, and returns nothing.
C4_MalformedParamsRejected ==
    (entry = ACEEI /\ instance.num_of_agents >= 1 /\ ~ParamsOK) =>
        pc \notin {"fdb_loop", "sbpb_loop", "optimize", "fbp_return",
                   "unpack", "returned"}

\* C5 (as claimed): the loop starts with every price 0, and an iteration
\* ends either by returning or with the prices updated component-wise,
\* new_price[i] = old_price[i] + delta * excess_demand[i] for every item i,
\* the loop staying at its test.
C5_ComponentwisePriceUpdate ==
    [][(entry = ACEEI /\ ValidCall) =>
          /\ (pc = "aceei_begin" /\ pc' # pc) =>
                prices'.vals = [i \in Items |-> 0]
          /\ (InIteration /\ ~InIteration') =>
                \/ pc' = "returned"
                \/ /\ pc' = "while"
                   /\ prices'.vals =
                          [i \in Items |->
                              prices.vals[i]
                                  + delta * lpResult.excess_demand[i]]]_vars

\* C6 (as claimed): when find_budget_perturbation hands control back, the
\* budget search, the bundle maximizer and the optimizer were invoked in
\* that order, and the value handed back is the optimizer's result.
C6_LoopReceivesOptimizerResult ==
    (ValidCall /\ (pc = "unpack" \/ (entry = FBP /\ pc = "returned"))) =>
        /\ Len(calls) >= 3
        /\ SubSeq(calls, Len(calls) - 2, Len(calls)) = <<FDB, SBPB, OPT>>
        /\ fbpResult = lpResult

(***************************************************************************)
(* Claims on student_budget_per_bundle.                                    *)
(***************************************************************************)
Bundle(vector) == {i \in Items : vector[i] = 1}

Value(inst, a, combination) ==
    SumOver(combination, inst.valuations[a])

\* the vector is the best affordable bundle of agent a at the budget, or all
\* zeros when nothing is affordable
IsBestBundle(inst, p, a, budget, vector) ==
    LET affordable == Affordable(p, budget, inst.agent_capacity[a])
    IN  IF affordable = {} THEN Bundle(vector) = {}
        ELSE /\ Bundle(vector) \in affordable
             /\ \A c \in affordable :
                   Value(inst, a, c) <= Value(inst, a, Bundle(vector))

\* the agent can afford a bundle of exactly its capacity of items
FullAffordable(inst, p, a, budget) ==
    \E c \in Affordable(p, budget, inst.agent_capacity[a]) :
        Cardinality(c) = inst.agent_capacity[a]

\* the loop at line 107 is about to process an agent whose list of budgets
\* the index reaches, in a call with epsilon >= 0 and delta > 0
AtSBPBStudent ==
    /\ pc = "sbpb_loop"
    /\ student_idx <= instance.num_of_agents
    /\ instance.keys = "index"
    /\ ParamsOK

\* C9 (as claimed): for every agent and every candidate budget,
\* student_budget_per_bundle emits a bundle of at most capacity items and
\* total price <= the budget whose summed valuation is the maximum over the
\* affordable bundles, and the all-zero vector when none is affordable.
C9_EmitsBestAffordableBundle ==
    [][AtSBPBStudent =>
          /\ pc' = "sbpb_loop"
          /\ DOMAIN matrix_a'[student_idx]
                 = DOMAIN different_budgets[student_idx]
          /\ \A k \in DOMAIN different_budgets[student_idx] :
                IsBestBundle(instance, prices.vals, student_idx,
                             different_budgets[student_idx][k],
                             matrix_a'[student_idx][k])]_vars

\* C10 (as claimed): whenever an agent can afford a bundle of exactly
\* capacity items at a candidate budget, the bundle emitted for that budget
\* has exactly capacity items.
C10_FullBundlePriority ==
    [][(/\ AtSBPBStudent
        /\ \E k \in DOMAIN different_budgets[student_idx] :
              FullAffordable(instance, prices.vals, student_idx,
                             different_budgets[student_idx][k])) =>
          /\ pc' = "sbpb_loop"
          /\ \A k \in DOMAIN different_budgets[student_idx] :
                FullAffordable(instance, prices.vals, student_idx,
                               different_budgets[student_idx][k]) =>
                    Cardinality(Bundle(matrix_a'[student_idx][k]))
                        = instance.agent_capacity[student_idx]]_vars

(***************************************************************************)
(* Claims on excess_demand and clipped_excess_demand.                      *)
(***************************************************************************)
\* the number of agents assigned item i, minus the capacity of item i
SeatsOver(i) ==
    Cardinality({a \in DOMAIN allocation : allocation[a][i] = 1})
        - instance.item_capacity[i]

\* C12: excess_demand returns, for each item, the number of agents assigned
\* the item minus the item's capacity; clipped_excess_demand returns
\* max(0, excess) for every item whose price is exactly 0 and the unchanged
\* excess for every other item; neither changes the allocation, the prices
\* or the instance.
C12_ExcessDemand ==
    /\ [](((entry = ED /\ pc = "returned") =>
              /\ DOMAIN z = Items
              /\ \A i \in Items : z[i] = SeatsOver(i))
          /\ ((entry = CED /\ pc = "returned") =>
              /\ DOMAIN z = Items
              /\ \A i \in Items :
                    /\ (prices.vals[i] = 0 /\ SeatsOver(i) < 0) => z[i] = 0
                    /\ (prices.vals[i] = 0 /\ SeatsOver(i) >= 0) =>
                           z[i] = SeatsOver(i)
                    /\ prices.vals[i] # 0 => z[i] = SeatsOver(i)))
    /\ [][/\ allocation' = allocation
          /\ prices' = prices
          /\ instance' = instance]_vars

\* C12 witness: clipped_excess_demand has returned for an allocation that
\* assigns some item, in which an under-demanded item of price 0 is clipped
\* to 0 and an item of another price keeps its nonzero excess.
C12_Witness ==
    /\ entry = CED
    /\ pc = "returned"
    /\ \E a \in DOMAIN allocation : \E i \in Items : allocation[a][i] = 1
    /\ \E i \in Items : prices.vals[i] = 0 /\ SeatsOver(i) < 0 /\ z[i] = 0
    /\ \E i \in Items : prices.vals[i] # 0 /\ z[i] # 0

====
